---- MODULE Spec2Model ----
(***************************************************************************)
(* The chat-driven form synchronisation of the HCP interaction page:       *)
(* AIAssistantChat (message log, isLoading gate, chatResponse effect),     *)
(* HCPInteractionForm (formData, updatedFields, highlight timers) and the  *)
(* interactions slice of the redux store (chatResponse, status, error).    *)
(***************************************************************************)
EXTENDS Integers, Sequences, FiniteSets, TLC

\* ------------------------------------------------------------------ bounds
\* Ids the server gives to interaction records.
MaxId == 3
\* Records in a list the server returns for one HCP.
MaxHistory == 2
\* Interaction records the agent stores over the whole run.
MaxRecords == 2
\* Chat requests issued over the whole run (all sessions together).
MaxRequests == 3
\* Mounts of the page (HCPInteractionForm + AIAssistantChat) over one store.
MaxSessions == 2
\* Records logged by handleSubmit over the whole run.
MaxSubmits == 1

\* setTimeout(..., 3000) of handleFormUpdate, in seconds.
HighlightWindow == 3

\* ------------------------------------------------------- JavaScript values
\* A JavaScript value is a tagged record; `t` is what typeof/Array.isArray see.
Undefined == [t |-> "undefined"]
Null == [t |-> "null"]
S(s) == [t |-> "string", v |-> s]
N(n) == [t |-> "number", v |-> n]
Arr(a) == [t |-> "array", v |-> a]

\* An object literal of the chat protocol: absent properties read as undefined.
\* ref is the object's identity (=== compares objects by identity).
Obj(ref, rt, fu, f, val, msg) ==
    [t |-> "object", ref |-> ref, response_type |-> rt, field_updates |-> fu,
     field |-> f, value |-> val, message |-> msg]

IsString(x) == x.t = "string"

\* ToBoolean: undefined, null, "" and 0 are falsy; objects and arrays truthy.
Truthy(x) ==
    CASE x.t = "undefined" -> FALSE
      [] x.t = "null" -> FALSE
      [] x.t = "string" -> x.v # ""
      [] x.t = "number" -> x.v # 0
      [] OTHER -> TRUE

\* Reading a property throws a TypeError on undefined and null.
PropThrows(x) == x.t \in {"undefined", "null"}

\* x.p for the protocol's property names: objects hold them, primitives
\* (strings, numbers) and arrays have no such property.
Prop(x, p) == IF x.t = "object" THEN x[p] ELSE Undefined

\* a || b
Or(a, b) == IF Truthy(a) THEN a ELSE b

\* String(x), as a template literal renders it.
ToStr(x) ==
    CASE x.t = "string" -> x.v
      [] x.t = "undefined" -> "undefined"
      [] x.t = "null" -> "null"
      [] x.t = "number" -> IF x.v = 5 THEN "5" ELSE "0"
      [] x.t = "function" -> "function Object() { [native code] }"
      [] OTHER -> "[object Object]"

\* ----------------------------------------------------------- string tables
\* String.prototype.toLowerCase on the strings of the model.
ToLowerCase(s) ==
    CASE s = "Sentiment" -> "sentiment"
      [] s = "MOOD" -> "mood"
      [] s = "HCP_Name" -> "hcp_name"
      [] s = "GOOD" -> "good"
      [] s = "Bad" -> "bad"
      [] s = "Phone" -> "phone"
      [] s = "Positive" -> "positive"
      [] s = "Neutral" -> "neutral"
      [] s = "Negative" -> "negative"
      [] s = "Meeting" -> "meeting"
      [] s = "Call" -> "call"
      [] s = "Dr. Smith" -> "dr. smith"
      [] s = "hcpSentiment" -> "hcpsentiment"
      [] s = "interactionType" -> "interactiontype"
      [] s = "hcpName" -> "hcpname"
      [] s = "topicsDiscussed" -> "topicsdiscussed"
      [] s = "materialsShared" -> "materialsshared"
      [] s = "samplesDistributed" -> "samplesdistributed"
      [] s = "followUpActions" -> "followupactions"
      [] s = "Great" -> "great"
      [] s = "Notes" -> "notes"
      [] s = "Dr. Lee" -> "dr. lee"
      [] OTHER -> s

\* String.prototype.trim on the strings of the model.
Trim(s) ==
    CASE s = "  " -> ""
      [] s = " hi " -> "hi"
      [] s = " Dr. Lee " -> "Dr. Lee"
      [] OTHER -> s

\* obj[key] of an object literal whose own properties are the record `own`:
\* own properties first, then what every object inherits from Object.prototype
\* (the function Object for "constructor", the prototype object itself for
\* "__proto__"; both truthy), else undefined.
Lookup(own, key) ==
    IF key \in DOMAIN own THEN S(own[key])
    ELSE IF key = "constructor" THEN [t |-> "function"]
    ELSE IF key = "__proto__" THEN [t |-> "prototype"]
    ELSE Undefined

fieldMapping ==
    [sentiment |-> "hcpSentiment", interaction_type |-> "interactionType",
     summary |-> "outcomes", key_discussion_points |-> "topicsDiscussed",
     materials_shared |-> "materialsShared",
     samples_distributed |-> "samplesDistributed",
     follow_up_actions |-> "followUpActions", attendees |-> "attendees",
     date |-> "date", time |-> "time", hcp_name |-> "hcpName",
     materials |-> "materialsShared", samples |-> "samplesDistributed",
     follow_up |-> "followUpActions", topics |-> "topicsDiscussed",
     discussion |-> "topicsDiscussed", outcomes |-> "outcomes",
     results |-> "outcomes", type |-> "interactionType",
     interaction_date |-> "date", interaction_time |-> "time",
     name |-> "hcpName", doctor |-> "hcpName", hcp |-> "hcpName",
     feeling |-> "hcpSentiment", mood |-> "hcpSentiment",
     reaction |-> "hcpSentiment", when |-> "date", meeting_date |-> "date",
     meeting_time |-> "time"]

sentimentMap ==
    [positive |-> "Positive", good |-> "Positive", happy |-> "Positive",
     pleased |-> "Positive", satisfied |-> "Positive", neutral |-> "Neutral",
     okay |-> "Neutral", fine |-> "Neutral", average |-> "Neutral",
     negative |-> "Negative", bad |-> "Negative", unhappy |-> "Negative",
     dissatisfied |-> "Negative", concerned |-> "Negative"]

typeMap ==
    [meeting |-> "Meeting", call |-> "Call", phone |-> "Call",
     email |-> "Email", visit |-> "Visit", conference |-> "Conference",
     other |-> "Other"]

\* ------------------------------------------------------ HCPInteractionForm
\* new Date().toISOString().split('T')[0] and toTimeString().slice(0, 5) at mount.
Today == "2025-01-15"
TimeNow == "09:30"

initialFormData ==
    [hcpName |-> S(""), interactionType |-> S(""), date |-> S(Today),
     time |-> S(TimeNow), attendees |-> S(""), topicsDiscussed |-> S(""),
     materialsShared |-> S(""), samplesDistributed |-> S(""),
     hcpSentiment |-> S("Neutral"), outcomes |-> S(""),
     followUpActions |-> S("")]

\* The form component's state: formData, updatedFields (an object, {} at mount)
\* and the pending setTimeout callbacks of handleFormUpdate, oldest first, each
\* with the field it clears and the seconds left before it fires.
initialForm ==
    [formData |-> initialFormData, updatedFields |-> <<>>, timers |-> <<>>]

\* {...prev, [key]: value}
Spread(prev, key, value) ==
    [k \in DOMAIN prev \cup {key} |-> IF k = key THEN value ELSE prev[k]]

\* updatedFields[key], as the className expressions read it.
Highlighted(updated, key) == key \in DOMAIN updated /\ updated[key]

\* NormalizeEnum with the table read by the raw value (no toLowerCase).
NormalizeEnumCaseSensitive(map, value) ==
    IF ~IsString(value) THEN [threw |-> TRUE, value |-> value]
    ELSE [threw |-> FALSE, value |-> Or(Lookup(map, value.v), value)]

\* value.toLowerCase() throws unless value is a string.
NormalizeEnum(map, value) ==
    IF ~IsString(value) THEN [threw |-> TRUE, value |-> value]
    ELSE [threw |-> FALSE, value |-> Or(Lookup(map, ToLowerCase(value.v)), value)]

\* WriteField with setFormData replacing the object (no ...prev).
WriteFieldReplacing(form, key, transformedValue) ==
    [formData |-> [k \in {key} |-> transformedValue],
     updatedFields |-> Spread(form.updatedFields, key, TRUE),
     timers |-> Append(form.timers, [field |-> key, left |-> HighlightWindow])]

\* WriteField without the setTimeout that removes the highlight.
WriteFieldNoTimeout(form, key, transformedValue) ==
    [formData |-> Spread(form.formData, key, transformedValue),
     updatedFields |-> Spread(form.updatedFields, key, TRUE),
     timers |-> form.timers]

\* The state updates handleFormUpdate queues once field and value are resolved.
WriteField(form, key, transformedValue) ==
    [formData |-> Spread(form.formData, key, transformedValue),
     updatedFields |-> Spread(form.updatedFields, key, TRUE),
     timers |-> Append(form.timers, [field |-> key, left |-> HighlightWindow])]

\* FormFieldName with the table read by the alias as given (no toLowerCase).
FormFieldNameCaseSensitive(field) == Or(Lookup(fieldMapping, field.v), field)

\* const formFieldName = fieldMapping[field.toLowerCase()] || field, for a
\* string field.
FormFieldName(field) == Or(Lookup(fieldMapping, ToLowerCase(field.v)), field)

\* handleFormUpdate(field, value): [threw, form].
handleFormUpdate(form, field, value) ==
    IF ~IsString(field) THEN [threw |-> TRUE, form |-> form]
    ELSE
      LET formFieldName == FormFieldName(field)
          transformed ==
            CASE formFieldName = S("hcpSentiment") -> NormalizeEnum(sentimentMap, value)
              [] formFieldName = S("interactionType") -> NormalizeEnum(typeMap, value)
              [] OTHER -> [threw |-> FALSE, value |-> value]
      IN IF transformed.threw THEN [threw |-> TRUE, form |-> form]
         ELSE [threw |-> FALSE,
               form |-> WriteField(form, ToStr(formFieldName), transformed.value)]

\* handleChange(e) with e.target = {name, value}: only formData changes.
handleChange(form, name, value) ==
    [form EXCEPT !.formData = Spread(form.formData, name, S(value))]

\* handleSentimentChange(sentiment)
handleSentimentChange(form, sentiment) ==
    [form EXCEPT !.formData = Spread(form.formData, "hcpSentiment", S(sentiment))]

\* resetForm(): formData is replaced by a new literal and updatedFields by {};
\* the pending setTimeout callbacks are not cleared.
resetForm(form) ==
    [formData |->
       [hcpName |-> S(""), interactionType |-> S(""), date |-> S(Today),
        time |-> S(""), attendees |-> S(""), topicsDiscussed |-> S(""),
        materialsShared |-> S(""), samplesDistributed |-> S(""),
        hcpSentiment |-> S(""), outcomes |-> S(""), followUpActions |-> S("")],
     updatedFields |-> <<>>,
     timers |-> form.timers]

\* ---------------------------------------------------------- AIAssistantChat
\* The response texts of the model.
PlainText == "Thanks, noted."
UpdateJson == "{\"response_type\":\"FORM_UPDATE\",\"field\":\"sentiment\",\"value\":\"good\"}"
UpdatesJson == "{\"field_updates\":[{\"field\":\"type\",\"value\":\"Phone\"}]}"
ManyUpdatesJson == "{\"field_updates\":[{\"field\":\"sentiment\",\"value\":\"good\"},{\"field\":\"type\",\"value\":\"Phone\"},{\"field\":\"Sentiment\",\"value\":\"bad\"}]}"
LoggedText == "I have logged the interaction."

Pair(f, v) == [field |-> f, value |-> v]

\* JSON.parse(text): [ok, value]; ok is FALSE where it throws a SyntaxError.
\* The parsed objects are fresh (ref 0 is no response object's identity).
JSONParse(text) ==
    CASE text = "null" -> [ok |-> TRUE, value |-> Null]
      [] text = "5" -> [ok |-> TRUE, value |-> N(5)]
      [] text = "\"abc\"" -> [ok |-> TRUE, value |-> S("abc")]
      [] text = UpdateJson ->
           [ok |-> TRUE,
            value |-> Obj(0, S("FORM_UPDATE"), Undefined, S("sentiment"),
                          S("good"), Undefined)]
      [] text = UpdatesJson ->
           [ok |-> TRUE,
            value |-> Obj(0, Undefined, Arr(<<Pair(S("type"), S("Phone"))>>),
                          Undefined, Undefined, Undefined)]
      [] text = ManyUpdatesJson ->
           [ok |-> TRUE,
            value |-> Obj(0, Undefined,
                          Arr(<<Pair(S("sentiment"), S("good")),
                                Pair(S("type"), S("Phone")),
                                Pair(S("Sentiment"), S("bad"))>>),
                          Undefined, Undefined, Undefined)]
      [] OTHER -> [ok |-> FALSE, value |-> Undefined]

greeting ==
    [type |-> "assistant", content |-> S("Hi! I'm your intelligent AI assistant"),
     isError |-> FALSE, isFormUpdate |-> FALSE, responseType |-> "none",
     isInitial |-> TRUE]

\* A message object of the log; properties the literal leaves out are FALSE or "none".
Message(type, content, isError, isFormUpdate, responseType) ==
    [type |-> type, content |-> content, isError |-> isError,
     isFormUpdate |-> isFormUpdate, responseType |-> responseType,
     isInitial |-> FALSE]

\* AppendMessage with the new message put in front: [message, ...prev].
PrependMessage(log, message) == <<message>> \o log

\* setMessages(prev => [...prev, message])
AppendMessage(log, message) == Append(log, message)

\* field_updates.forEach(update => { try { onFormUpdate(...) } catch {} }):
\* an update that throws is logged and skipped, the rest still run.
RECURSIVE ForEachCaught(_, _)
ForEachCaught(form, updates) ==
    IF updates = <<>> THEN form
    ELSE LET r == handleFormUpdate(form, Head(updates).field, Head(updates).value)
         IN ForEachCaught(r.form, Tail(updates))

\* field_updates.forEach(update => onFormUpdate(...)) inside one try: the first
\* update that throws ends the loop, the writes before it stay.
RECURSIVE ForEachUntilThrow(_, _)
ForEachUntilThrow(form, updates) ==
    IF updates = <<>> THEN form
    ELSE LET r == handleFormUpdate(form, Head(updates).field, Head(updates).value)
         IN IF r.threw THEN form ELSE ForEachUntilThrow(r.form, Tail(updates))

\* typeof chatResponse === 'string' ? try JSON.parse : chatResponse
ParseResponse(chatResponse) ==
    IF IsString(chatResponse)
    THEN LET p == JSONParse(chatResponse.v)
         IN IF p.ok THEN p.value
            ELSE Obj(0, Undefined, Undefined, Undefined, Undefined, chatResponse)
    ELSE chatResponse

\* PopulateForm without the fallback that reads the updates from the message.
PopulateFormListOnly(form, parsed) ==
    LET fu == parsed.field_updates IN
    IF Truthy(fu)
    THEN IF fu.t # "array" THEN [threw |-> TRUE, form |-> form]
         ELSE [threw |-> FALSE, form |-> ForEachCaught(form, fu.v)]
    ELSE [threw |-> FALSE, form |-> form]

\* The FORM_POPULATE branch's form updates: [threw, form].
PopulateForm(form, parsed) ==
    LET fu == parsed.field_updates IN
    IF Truthy(fu)
    THEN IF fu.t # "array" THEN [threw |-> TRUE, form |-> form]
         ELSE [threw |-> FALSE, form |-> ForEachCaught(form, fu.v)]
    ELSE IF Truthy(parsed.message)
    THEN LET p == CASE IsString(parsed.message) -> JSONParse(parsed.message.v)
                    [] parsed.message.t = "number" ->
                         [ok |-> TRUE, value |-> parsed.message]
                    [] OTHER -> [ok |-> FALSE, value |-> Undefined]
             inner == IF p.ok /\ ~PropThrows(p.value)
                      THEN Prop(p.value, "field_updates") ELSE Undefined
         IN [threw |-> FALSE,
             form |-> IF Truthy(inner) /\ inner.t = "array"
                      THEN ForEachUntilThrow(form, inner.v) ELSE form]
    ELSE [threw |-> FALSE, form |-> form]

\* The FORM_UPDATE branch's form update: [threw, form].
UpdateForm(form, parsed) ==
    IF Truthy(parsed.field) /\ parsed.value # Undefined
    THEN handleFormUpdate(form, parsed.field, parsed.value)
    ELSE [threw |-> FALSE, form |-> form]

\* ShouldProcess without the comparison against the last processed response.
ShouldProcessAnyResponse(chatResponse, lastProcessed) == Truthy(chatResponse)

\* The guard of the chatResponse effect (line 70).
ShouldProcess(chatResponse, lastProcessed) ==
    Truthy(chatResponse) /\ chatResponse # lastProcessed

\* The assistant message the effect appends for a parsed response.
ResponseMessage(parsed) ==
    LET rt == Prop(parsed, "response_type")
        msg == Prop(parsed, "message")
    IN CASE rt = S("FORM_POPULATE") ->
              Message("assistant",
                      Or(msg, S("I've populated the form with your interaction information.")),
                      FALSE, TRUE, "FORM_POPULATE")
         [] rt = S("FORM_UPDATE") ->
              Message("assistant",
                      Or(msg, S("Updated " \o ToStr(parsed.field) \o " to \""
                                \o ToStr(parsed.value) \o "\"")),
                      FALSE, TRUE, "FORM_UPDATE")
         [] rt = S("ERROR") ->
              Message("assistant", Or(msg, S("An error occurred")), TRUE, FALSE, "ERROR")
         [] OTHER ->
              Message("assistant",
                      Or(msg, IF IsString(parsed) THEN parsed ELSE S("Response received")),
                      FALSE, FALSE, "none")

\* ResponseForm with the ERROR branch applying the envelope's field and value.
ResponseFormErrorUpdates(form, parsed) ==
    LET rt == Prop(parsed, "response_type")
    IN CASE rt = S("FORM_POPULATE") -> PopulateForm(form, parsed)
         [] rt \in {S("FORM_UPDATE"), S("ERROR")} -> UpdateForm(form, parsed)
         [] OTHER -> [threw |-> FALSE, form |-> form]

\* The form updates of the effect's branch for a parsed response: [threw, form].
ResponseForm(form, parsed) ==
    LET rt == Prop(parsed, "response_type")
    IN CASE rt = S("FORM_POPULATE") -> PopulateForm(form, parsed)
         [] rt = S("FORM_UPDATE") -> UpdateForm(form, parsed)
         [] OTHER -> [threw |-> FALSE, form |-> form]

\* One run of the chatResponse effect over the component state c =
\* [messages, isLoading, lastProcessedResponse, form]. outcome is "skipped"
\* (guard false), "threw" (an uncaught TypeError) or "applied".
ChatResponseEffect(chatResponse, c) ==
    IF ~ShouldProcess(chatResponse, c.lastProcessedResponse)
    THEN [outcome |-> "skipped", c |-> c]
    ELSE
      LET parsed == ParseResponse(chatResponse) IN
      IF PropThrows(parsed) THEN [outcome |-> "threw", c |-> c]
      ELSE
        LET f == ResponseForm(c.form, parsed) IN
        IF f.threw THEN [outcome |-> "threw", c |-> c]
        ELSE [outcome |-> "applied",
              c |-> [messages |-> AppendMessage(c.messages, ResponseMessage(parsed)),
                     isLoading |-> FALSE,
                     lastProcessedResponse |-> chatResponse,
                     form |-> f.form]]

\* ------------------------------------------------------------------- state
VARIABLES
    \* interactions slice of the store
    chatResponse, status, error,
    \* AIAssistantChat
    messages, inputMessage, isLoading, lastProcessedResponse,
    \* HCPInteractionForm
    formData, updatedFields, timers, isSubmitting,
    \* the formData that the memoized handleSendMessage closes over
    closureFormData,
    \* state.interactions of the store: the records it holds, in order
    interactions,
    \* the payloads of the log requests whose thunk has not settled, in the
    \* order of their dispatch
    logRequests,
    \* chat requests whose thunk has not settled: [token, session, formData]
    inflight,
    \* number of chat requests issued so far; the n-th request has token n
    issued,
    \* the mount of the page that is on screen, and whether its tree was torn
    \* down by an error thrown while rendering or running an effect
    session, crashed,
    \* history: the token of the request whose response is in chatResponse,
    \* and how often each request's response was applied by the mounted session
    delivered, applied,
    \* the kinds of response the backend of this run answers with
    backend,
    \* the agent behind the chat endpoint: the interaction records it has
    \* stored, and what its router or the tool it ran last returned
    db, reply

agentVars == <<db, reply>>

vars ==
    <<chatResponse, status, error, messages, inputMessage, isLoading,
      lastProcessedResponse, formData, updatedFields, timers, isSubmitting,
      closureFormData, interactions, logRequests, inflight, issued, session,
      crashed, delivered, applied, backend, agentVars>>

clientVars ==
    <<chatResponse, status, error, messages, inputMessage, isLoading,
      lastProcessedResponse, formData, updatedFields, timers, isSubmitting,
      closureFormData, interactions, logRequests, inflight, issued, session,
      crashed, delivered, applied, backend>>
storeVars == <<chatResponse, status, error>>
chatVars == <<messages, inputMessage, isLoading, lastProcessedResponse>>
formVars == <<formData, updatedFields, timers>>
submitVars == <<isSubmitting, interactions, logRequests>>

\* What the textarea of the chat can hold.
InputTexts == {"", "  ", "Met Dr. Smith"}

\* response.data of a fulfilled chat request, by kind; ref is the identity of
\* a response object (every response is a new object, a string has none).
Response(kind, ref) ==
    CASE kind = "populate" ->
           Obj(ref, S("FORM_POPULATE"), Arr(<<Pair(S("sentiment"), S("good"))>>),
               Undefined, Undefined, S("ok"))
      [] kind = "populateMany" ->
           Obj(ref, S("FORM_POPULATE"),
               Arr(<<Pair(S("HCP_Name"), S("Dr. Smith")), Pair(S("MOOD"), S("Bad")),
                     Pair(S("feeling"), S("okay"))>>),
               Undefined, Undefined, Undefined)
      [] kind = "populateNotArray" ->
           Obj(ref, S("FORM_POPULATE"), S("sentiment=good"), Undefined, Undefined,
               S("ok"))
      [] kind = "populateFromMessage" ->
           Obj(ref, S("FORM_POPULATE"), Undefined, Undefined, Undefined,
               S(UpdatesJson))
      [] kind = "populateFromMessageMany" ->
           Obj(ref, S("FORM_POPULATE"), Undefined, Undefined, Undefined,
               S(ManyUpdatesJson))
      [] kind = "populateText" ->
           Obj(ref, S("FORM_POPULATE"), Undefined, Undefined, Undefined,
               S(LoggedText))
      [] kind = "populateJsonNull" ->
           Obj(ref, S("FORM_POPULATE"), Undefined, Undefined, Undefined,
               S("null"))
      [] kind = "populateJsonNoList" ->
           Obj(ref, S("FORM_POPULATE"), Undefined, Undefined, Undefined,
               S(UpdateJson))
      [] kind = "update" ->
           Obj(ref, S("FORM_UPDATE"), Undefined, S("Sentiment"), S("GOOD"),
               S("Sentiment updated"))
      [] kind = "updateNumber" ->
           Obj(ref, S("FORM_UPDATE"), Undefined, S("sentiment"), N(5), Undefined)
      [] kind = "updateCanonical" ->
           Obj(ref, S("FORM_UPDATE"), Undefined, S("hcpSentiment"), S("Positive"),
               Undefined)
      [] kind = "updateType" ->
           Obj(ref, S("FORM_UPDATE"), Undefined, S("type"), S("Phone"), Undefined)
      [] kind = "updateUnmatchedValue" ->
           Obj(ref, S("FORM_UPDATE"), Undefined, S("sentiment"), S("Great"),
               Undefined)
      [] kind = "updatePrototypeValue" ->
           Obj(ref, S("FORM_UPDATE"), Undefined, S("sentiment"), S("constructor"),
               Undefined)
      [] kind = "updateUnknownAlias" ->
           Obj(ref, S("FORM_UPDATE"), Undefined, S("Notes"), S("GOOD"), Undefined)
      [] kind = "updatePrototypeAlias" ->
           Obj(ref, S("FORM_UPDATE"), Undefined, S("constructor"), S("GOOD"),
               Undefined)
      [] kind = "updateEmptyField" ->
           Obj(ref, S("FORM_UPDATE"), Undefined, S(""), S("x"), Undefined)
      [] kind = "error" ->
           Obj(ref, S("ERROR"), Undefined, Undefined, Undefined, S("Tool failed"))
      [] kind = "errorBare" ->
           Obj(ref, S("ERROR"), Undefined, S("sentiment"), S("good"), Undefined)
      [] kind = "plain" ->
           Obj(ref, Undefined, Undefined, Undefined, Undefined, S("Hello!"))
      [] kind = "plainEmptyMessage" ->
           Obj(ref, Undefined, Undefined, Undefined, Undefined, S(""))
      [] kind = "unknownType" ->
           Obj(ref, S("INFO"), Undefined, Undefined, Undefined, S("FYI"))
      [] kind = "emptyObject" ->
           Obj(ref, Undefined, Undefined, Undefined, Undefined, Undefined)
      [] kind = "text" -> S(PlainText)
      [] kind = "emptyText" -> S("")
      [] kind = "jsonText" -> S(UpdateJson)
      [] kind = "jsonNull" -> S("null")
      [] kind = "jsonNumber" -> S("5")
      [] kind = "jsonString" -> S("\"abc\"")
      [] kind = "nullPayload" -> Null

\* The backends of the model: the kinds of response one backend answers with.
Backends ==
    { {"populate", "populateMany", "update"},
      {"update", "updateEmptyField", "updateNumber"},
      {"populate", "error", "errorBare"},
      {"text", "emptyText", "jsonText", "plain"},
      {"jsonNull", "jsonNumber", "jsonString"},
      {"populateNotArray", "emptyObject", "nullPayload", "populateFromMessage"},
      {"plain", "plainEmptyMessage", "unknownType"} }

\* The backends of the runs in which the user also edits and submits the form.
EditBackends ==
    { {"update", "updateType"},
      {"updateCanonical", "updatePrototypeValue"},
      {"updateUnknownAlias", "updatePrototypeAlias"},
      {"populateMany", "updateUnmatchedValue"},
      {"populateFromMessage", "error"} }

NoneApplied == [n \in 1..MaxRequests |-> 0]

Component ==
    [messages |-> messages, isLoading |-> isLoading,
     lastProcessedResponse |-> lastProcessedResponse,
     form |-> [formData |-> formData, updatedFields |-> updatedFields,
               timers |-> timers]]

\* The component state at mount (useState / useRef initial values).
MountedComponent ==
    [messages |-> <<greeting>>, isLoading |-> FALSE,
     lastProcessedResponse |-> Null, form |-> initialForm]

\* The component's variables after a run of the effect that ended in e.
Commit(e) ==
    /\ messages' = e.c.messages
    /\ isLoading' = e.c.isLoading
    /\ lastProcessedResponse' = e.c.lastProcessedResponse
    /\ formData' = e.c.form.formData
    /\ updatedFields' = e.c.form.updatedFields
    /\ timers' = e.c.form.timers
    /\ crashed' = (e.outcome = "threw")

\* The agent has not been called yet.
NoReply == [tool |-> "none"]

Init ==
    /\ chatResponse = Null /\ status = "idle" /\ error = Null
    /\ messages = <<greeting>> /\ inputMessage = "" /\ isLoading = FALSE
    /\ lastProcessedResponse = Null
    /\ formData = initialFormData /\ updatedFields = <<>> /\ timers = <<>>
    /\ isSubmitting = FALSE /\ interactions = <<>> /\ logRequests = <<>>
    /\ closureFormData = initialFormData
    /\ db = <<>> /\ reply = NoReply
    /\ inflight = {} /\ issued = 0 /\ session = 1 /\ crashed = FALSE
    /\ delivered = 0 /\ applied = NoneApplied
    /\ backend \in Backends

\* useCallback(..., [inputMessage, isLoading, dispatch]): handleSendMessage is
\* created anew, closing over the formData prop of that render, only by a
\* render in which inputMessage or isLoading changed; any other render keeps
\* the function of the earlier render and the formData it closed over.
UseCallback ==
    closureFormData' = IF inputMessage' # inputMessage \/ isLoading' # isLoading
                       THEN formData' ELSE closureFormData

\* onChange of the textarea, which is disabled while isLoading.
SetInputMessage(text) ==
    /\ ~crashed /\ ~isLoading
    /\ inputMessage' = text
    /\ UNCHANGED <<storeVars, messages, isLoading, lastProcessedResponse, formVars,
                   submitVars, inflight, issued, session, crashed, delivered,
                   applied, backend, agentVars>>
    /\ UseCallback

\* if (!inputMessage.trim() || isLoading) return;
SendRejected(input, loading) == Trim(input) = "" \/ loading

\* handleSendMessage up to the await: the user message, setIsLoading(true) and
\* the dispatch of chatWithAgentAsync, whose pending action the slice reduces.
HandleSendMessage ==
    /\ ~crashed
    /\ UNCHANGED <<backend, agentVars, submitVars>>
    /\ IF SendRejected(inputMessage, isLoading)
       THEN UNCHANGED <<storeVars, chatVars, formVars, closureFormData, inflight,
                           issued, session, crashed, delivered, applied>>
       ELSE /\ issued < MaxRequests
            /\ messages' = AppendMessage(messages,
                   Message("user", S(inputMessage), FALSE, FALSE, "none"))
            /\ isLoading' = TRUE
            /\ status' = "loading"
            /\ issued' = issued + 1
            /\ inflight' = inflight \cup
                   {[token |-> issued + 1, session |-> session,
                     formData |-> closureFormData]}
            /\ UNCHANGED <<chatResponse, error, inputMessage, lastProcessedResponse,
                           formVars, session, crashed, delivered, applied>>
            /\ UseCallback

\* Whether `await dispatch(chatWithAgentAsync(...))` throws. The promise a
\* createAsyncThunk thunk returns always resolves, with the fulfilled or with
\* the rejected action, so the await throws for neither way of settling.
AwaitThrows(settledAs) == FALSE

\* handleSendMessage after the await, over a = [messages, inputMessage,
\* isLoading]: setInputMessage('') in the try, or the catch block.
AfterAwait(a, threw) ==
    IF threw
    THEN [messages |-> AppendMessage(a.messages,
              Message("assistant",
                      S("Sorry, I encountered an error. Please try again."),
                      TRUE, FALSE, "none")),
          inputMessage |-> a.inputMessage,
          isLoading |-> FALSE]
    ELSE [messages |-> a.messages, inputMessage |-> "", isLoading |-> a.isLoading]

\* What the mounted session does once the thunk of request r has settled and
\* the store holds response cr: the effect runs if its dependency chatResponse
\* changed, and the handleSendMessage that awaited r resumes if it belongs to
\* this mount (state setters of an unmounted component do nothing).
Settle(r, settledAs, cr, effectRuns) ==
    LET e == IF effectRuns THEN ChatResponseEffect(cr, Component)
             ELSE [outcome |-> "skipped", c |-> Component]
        resumes == r.session = session /\ e.outcome # "threw"
        a == IF resumes
             THEN AfterAwait([messages |-> e.c.messages,
                              inputMessage |-> inputMessage,
                              isLoading |-> e.c.isLoading],
                             AwaitThrows(settledAs))
             ELSE [messages |-> e.c.messages, inputMessage |-> inputMessage,
                   isLoading |-> e.c.isLoading]
    IN /\ messages' = a.messages
       /\ inputMessage' = a.inputMessage
       /\ isLoading' = a.isLoading
       /\ lastProcessedResponse' = e.c.lastProcessedResponse
       /\ formData' = e.c.form.formData
       /\ updatedFields' = e.c.form.updatedFields
       /\ timers' = e.c.form.timers
       /\ crashed' = (e.outcome = "threw")
       /\ applied' = IF e.outcome = "applied"
                     THEN [applied EXCEPT ![r.token] = @ + 1] ELSE applied
       /\ UseCallback

\* chatWithAgentAsync.fulfilled reduced by the slice, then the page reacts.
ChatFulfilled ==
    \E r \in inflight : \E kind \in backend :
      LET p == Response(kind, r.token) IN
        /\ status' = "succeeded"
        /\ chatResponse' = p
        /\ inflight' = inflight \ {r}
        /\ delivered' = r.token
        /\ IF crashed
           THEN UNCHANGED <<chatVars, formVars, closureFormData, crashed, applied>>
           ELSE Settle(r, "fulfilled", p, p # chatResponse)
        /\ UNCHANGED <<error, issued, session, backend, agentVars, submitVars>>

\* error.response.data of a failed chat request.
Errors == {S("Internal Server Error")}

\* chatWithAgentAsync.rejected reduced by the slice, then the page reacts.
ChatRejected ==
    \E r \in inflight : \E err \in Errors :
        /\ status' = "failed"
        /\ error' = err
        /\ inflight' = inflight \ {r}
        /\ IF crashed
           THEN UNCHANGED <<chatVars, formVars, closureFormData, crashed, applied>>
           ELSE Settle(r, "rejected", chatResponse, FALSE)
        /\ UNCHANGED <<chatResponse, issued, session, delivered, backend, agentVars,
                       submitVars>>

\* The chatResponse effect invoked again with the store unchanged (a re-run
\* of the effect for the response it last saw).
RerunEffect ==
    /\ ~crashed
    /\ LET e == ChatResponseEffect(chatResponse, Component)
       IN /\ Commit(e)
          /\ applied' = IF e.outcome = "applied"
                        THEN [applied EXCEPT ![delivered] = @ + 1] ELSE applied
    /\ UNCHANGED <<storeVars, inputMessage, inflight, issued, session, delivered,
                   backend, agentVars, submitVars>>
    /\ UseCallback

\* The page is left and mounted again over the same store: fresh component
\* state, then the effect's first run sees whatever chatResponse the store holds.
Remount ==
    /\ ~crashed
    /\ session < MaxSessions
    /\ session' = session + 1
    /\ inputMessage' = ""
    /\ LET e == ChatResponseEffect(chatResponse, MountedComponent)
       IN /\ Commit(e)
          /\ applied' = IF e.outcome = "applied"
                        THEN [NoneApplied EXCEPT ![delivered] = 1] ELSE NoneApplied
    /\ closureFormData' = initialFormData
    /\ isSubmitting' = FALSE
    /\ UNCHANGED <<storeVars, inflight, issued, delivered, backend, agentVars, interactions,
                   logRequests>>

\* The oldest setTimeout callback of handleFormUpdate fires.
TimerFires ==
    /\ ~crashed
    /\ timers # <<>>
    /\ Head(timers).left = 0
    /\ updatedFields' = Spread(updatedFields, Head(timers).field, FALSE)
    /\ timers' = Tail(timers)
    /\ UNCHANGED <<storeVars, chatVars, formData, closureFormData, submitVars,
                   inflight, issued, session, crashed, delivered, applied, backend, agentVars>>

\* One second passes; a callback that is due runs before time moves on.
Tick ==
    /\ ~crashed
    /\ timers # <<>>
    /\ Head(timers).left > 0
    /\ timers' = [i \in DOMAIN timers |-> [timers[i] EXCEPT !.left = @ - 1]]
    /\ UNCHANGED <<storeVars, chatVars, formData, updatedFields, closureFormData,
                   submitVars, inflight, issued, session, crashed, delivered,
                   applied, backend, agentVars>>

\* What the user types into a named input of the form: [name, value].
EditInputs == { [name |-> "hcpName", value |-> "Dr. Lee"] }

\* onChange of a named input of the form.
HandleChange(name, value) ==
    /\ ~crashed
    /\ formData' = handleChange(Component.form, name, value).formData
    /\ UNCHANGED <<storeVars, chatVars, updatedFields, timers, closureFormData,
                   submitVars, inflight, issued, session, crashed, delivered,
                   applied, backend, agentVars>>

\* The sentiment options of the form.
Sentiments == {"Positive", "Neutral", "Negative"}

\* onClick of a sentiment option.
HandleSentimentChange(sentiment) ==
    /\ ~crashed
    /\ formData' = handleSentimentChange(Component.form, sentiment).formData
    /\ UNCHANGED <<storeVars, chatVars, updatedFields, timers, closureFormData,
                   submitVars, inflight, issued, session, crashed, delivered,
                   applied, backend, agentVars>>

\* formData.hcpName.trim() of a truthy hcpName that is not a string: a
\* TypeError leaves handleSubmit before anything is set or dispatched.
SubmitThrows(data) == Truthy(data.hcpName) /\ ~IsString(data.hcpName)

\* A validation that does not trim the name.
SubmitInvalidUntrimmed(data) ==
    ~Truthy(data.hcpName) \/ ~Truthy(data.interactionType)

\* if (!formData.hcpName || formData.hcpName.trim() === '') / if
\* (!formData.interactionType): the validation of handleSubmit fails.
SubmitInvalid(data) ==
    \/ ~Truthy(data.hcpName)
    \/ (IsString(data.hcpName) /\ Trim(data.hcpName.v) = "")
    \/ ~Truthy(data.interactionType)

\* A payload whose summary is taken from the topics discussed.
interactionDataSummaryOfTopics(data) ==
    [hcp_name |-> S(Trim(data.hcpName.v)),
     interaction_date |-> data.date,
     interaction_time |-> data.time,
     interaction_type |-> data.interactionType,
     attendees |-> data.attendees,
     summary |-> data.topicsDiscussed,
     key_discussion_points |-> data.topicsDiscussed,
     materials_shared |-> data.materialsShared,
     samples_distributed |-> data.samplesDistributed,
     sentiment |-> data.hcpSentiment,
     follow_up_actions |-> data.followUpActions]

\* const interactionData = {...}: the payload of the log request.
interactionData(data) ==
    [hcp_name |-> S(Trim(data.hcpName.v)),
     interaction_date |-> data.date,
     interaction_time |-> data.time,
     interaction_type |-> data.interactionType,
     attendees |-> data.attendees,
     summary |-> data.outcomes,
     key_discussion_points |-> data.topicsDiscussed,
     materials_shared |-> data.materialsShared,
     samples_distributed |-> data.samplesDistributed,
     sentiment |-> data.hcpSentiment,
     follow_up_actions |-> data.followUpActions]

\* A handleSubmit without the double-submission guard.
HandleSubmitUnguarded ==
    /\ ~crashed
    /\ IF SubmitThrows(formData) \/ SubmitInvalid(formData)
       THEN UNCHANGED <<status, isSubmitting, logRequests>>
       ELSE /\ Len(interactions) < MaxSubmits
            /\ isSubmitting' = TRUE
            /\ status' = "loading"
            /\ logRequests' = Append(logRequests, interactionData(formData))
    /\ UNCHANGED <<chatResponse, error, chatVars, formVars, closureFormData,
                   interactions, inflight, issued, session, crashed, delivered,
                   applied, backend, agentVars>>

\* handleSubmit up to the await: the double-submission guard, the validation,
\* setIsSubmitting(true) and the dispatch of logInteractionAsync, whose pending
\* action the slice reduces.
HandleSubmit ==
    /\ ~crashed
    /\ IF isSubmitting \/ SubmitThrows(formData) \/ SubmitInvalid(formData)
       THEN UNCHANGED <<status, isSubmitting, logRequests>>
       ELSE /\ Len(interactions) < MaxSubmits
            /\ isSubmitting' = TRUE
            /\ status' = "loading"
            /\ logRequests' = Append(logRequests, interactionData(formData))
    /\ UNCHANGED <<chatResponse, error, chatVars, formVars, closureFormData,
                   interactions, inflight, issued, session, crashed, delivered,
                   applied, backend, agentVars>>

\* The pending requests without the i-th, which has settled.
Settled(requests, i) ==
    SubSeq(requests, 1, i - 1) \o SubSeq(requests, i + 1, Len(requests))

\* response.data of a fulfilled log request: the record the server created
\* for the payload, under the id it gave it.
Created(payload, id) == [id |-> id, hcp_name |-> payload.hcp_name]

\* logInteractionAsync.fulfilled reduced by the slice; handleSubmit resumes,
\* the user answers window.confirm, resetForm() runs if the answer is yes, and
\* the finally block ends the submission.
LogFulfilled(addAnother) ==
    /\ \E i \in DOMAIN logRequests :
         /\ logRequests' = Settled(logRequests, i)
         /\ interactions' =
              Append(interactions, Created(logRequests[i], Len(interactions) + 1))
    /\ status' = "succeeded"
    /\ IF crashed
       THEN UNCHANGED <<formVars, isSubmitting>>
       ELSE /\ isSubmitting' = FALSE
            /\ LET f == IF addAnother THEN resetForm(Component.form)
                        ELSE Component.form
               IN /\ formData' = f.formData
                  /\ updatedFields' = f.updatedFields
                  /\ timers' = f.timers
    /\ UNCHANGED <<chatResponse, error, chatVars, closureFormData, inflight, issued,
                   session, crashed, delivered, applied, backend, agentVars>>

\* A failed submission that also resets the form.
LogRejectedResetting ==
    /\ \E i \in DOMAIN logRequests : logRequests' = Settled(logRequests, i)
    /\ \E err \in Errors :
         /\ status' = "failed"
         /\ error' = err
    /\ isSubmitting' = (crashed /\ isSubmitting)
    /\ formData' = resetForm(Component.form).formData
    /\ updatedFields' = resetForm(Component.form).updatedFields
    /\ UNCHANGED <<chatResponse, chatVars, timers, closureFormData, interactions,
                   inflight, issued, session, crashed, delivered, applied, backend, agentVars>>

\* logInteractionAsync.rejected reduced by the slice; handleSubmit throws into
\* its own catch (an alert) and the finally block ends the submission.
LogRejected ==
    /\ \E i \in DOMAIN logRequests : logRequests' = Settled(logRequests, i)
    /\ \E err \in Errors :
         /\ status' = "failed"
         /\ error' = err
    /\ isSubmitting' = (crashed /\ isSubmitting)
    /\ UNCHANGED <<chatResponse, chatVars, formVars, closureFormData, interactions,
                   inflight, issued, session, crashed, delivered, applied, backend, agentVars>>

Next ==
    \/ \E text \in InputTexts : SetInputMessage(text)
    \/ HandleSendMessage
    \/ ChatFulfilled
    \/ ChatRejected
    \/ RerunEffect
    \/ Remount
    \/ TimerFires
    \/ Tick

Spec == Init /\ [][Next]_vars

\* The backends that answer with a FORM_POPULATE whose updates, if any, are
\* JSON text in its message.
FallbackBackends ==
    { {"populateFromMessage", "populateFromMessageMany"},
      {"populateText", "populateJsonNull", "populateJsonNoList"} }

\* The page in front of such a backend.
FallbackInit ==
    /\ chatResponse = Null /\ status = "idle" /\ error = Null
    /\ messages = <<greeting>> /\ inputMessage = "" /\ isLoading = FALSE
    /\ lastProcessedResponse = Null
    /\ formData = initialFormData /\ updatedFields = <<>> /\ timers = <<>>
    /\ isSubmitting = FALSE /\ interactions = <<>> /\ logRequests = <<>>
    /\ closureFormData = initialFormData
    /\ db = <<>> /\ reply = NoReply
    /\ inflight = {} /\ issued = 0 /\ session = 1 /\ crashed = FALSE
    /\ delivered = 0 /\ applied = NoneApplied
    /\ backend \in FallbackBackends

FallbackSpec == FallbackInit /\ [][Next]_vars

\* One session of the page in which the user also edits the form while
\* chatting.
EditInit ==
    /\ chatResponse = Null /\ status = "idle" /\ error = Null
    /\ messages = <<greeting>> /\ inputMessage = "" /\ isLoading = FALSE
    /\ lastProcessedResponse = Null
    /\ formData = initialFormData /\ updatedFields = <<>> /\ timers = <<>>
    /\ isSubmitting = FALSE /\ interactions = <<>> /\ logRequests = <<>>
    /\ closureFormData = initialFormData
    /\ db = <<>> /\ reply = NoReply
    /\ inflight = {} /\ issued = 0 /\ session = 1 /\ crashed = FALSE
    /\ delivered = 0 /\ applied = NoneApplied
    /\ backend \in EditBackends

\* The sentiment options the user clicks in these runs.
EditSentiments == {"Positive", "Negative"}

EditNext ==
    \/ \E text \in InputTexts : SetInputMessage(text)
    \/ HandleSendMessage
    \/ ChatFulfilled
    \/ ChatRejected
    \/ \E in \in EditInputs : HandleChange(in.name, in.value)
    \/ \E sentiment \in EditSentiments : HandleSentimentChange(sentiment)
    \/ TimerFires
    \/ Tick

EditSpec == EditInit /\ [][EditNext]_vars

\* The backend of the runs in which the user fills in and submits the form: it
\* answers in plain text and leaves the form alone.
SubmitBackends == { {"plain"} }

\* What the user types or selects in the form in those runs.
SubmitInputs ==
    { [name |-> "hcpName", value |-> "Dr. Lee"],
      [name |-> "hcpName", value |-> "  "],
      [name |-> "hcpName", value |-> " Dr. Lee "],
      [name |-> "interactionType", value |-> "Meeting"],
      [name |-> "outcomes", value |-> "Agreed"] }

\* One session of the page in which the user fills in and submits the form
\* while chatting.
SubmitInit ==
    /\ chatResponse = Null /\ status = "idle" /\ error = Null
    /\ messages = <<greeting>> /\ inputMessage = "" /\ isLoading = FALSE
    /\ lastProcessedResponse = Null
    /\ formData = initialFormData /\ updatedFields = <<>> /\ timers = <<>>
    /\ isSubmitting = FALSE /\ interactions = <<>> /\ logRequests = <<>>
    /\ closureFormData = initialFormData
    /\ db = <<>> /\ reply = NoReply
    /\ inflight = {} /\ issued = 0 /\ session = 1 /\ crashed = FALSE
    /\ delivered = 0 /\ applied = NoneApplied
    /\ backend \in SubmitBackends

SubmitNext ==
    \/ \E text \in InputTexts : SetInputMessage(text)
    \/ HandleSendMessage
    \/ ChatFulfilled
    \/ ChatRejected
    \/ \E in \in SubmitInputs : HandleChange(in.name, in.value)
    \/ HandleSubmit
    \/ \E addAnother \in BOOLEAN : LogFulfilled(addAnother)
    \/ LogRejected

SubmitSpec == SubmitInit /\ [][SubmitNext]_vars

\* Forms the user has filled in: every assignment of these values to the
\* fields.
FilledForms ==
    [hcpName : {S("Dr. Lee"), S(" Dr. Lee ")},
     interactionType : {S("Meeting"), S("Call")},
     date : {S(Today)},
     time : {S(TimeNow), S("")},
     attendees : {S("Nurse Joy"), S("")},
     topicsDiscussed : {S("Efficacy"), S("")},
     materialsShared : {S("Brochure")},
     samplesDistributed : {S("Starter pack")},
     hcpSentiment : {S("Positive"), S("Neutral")},
     outcomes : {S("Agreed"), S("")},
     followUpActions : {S("Call back"), S("")}]

\* A session in which the user has filled in the form and not used the chat.
FilledInit ==
    /\ chatResponse = Null /\ status = "idle" /\ error = Null
    /\ messages = <<greeting>> /\ inputMessage = "" /\ isLoading = FALSE
    /\ lastProcessedResponse = Null
    /\ formData \in FilledForms /\ updatedFields = <<>> /\ timers = <<>>
    /\ isSubmitting = FALSE /\ interactions = <<>> /\ logRequests = <<>>
    /\ closureFormData = initialFormData
    /\ db = <<>> /\ reply = NoReply
    /\ inflight = {} /\ issued = 0 /\ session = 1 /\ crashed = FALSE
    /\ delivered = 0 /\ applied = NoneApplied
    /\ backend \in SubmitBackends

FilledNext ==
    \/ HandleSubmit
    \/ \E addAnother \in BOOLEAN : LogFulfilled(addAnother)
    \/ LogRejected

FilledSpec == FilledInit /\ [][FilledNext]_vars

\* The backend of the runs in which the assistant fills in part of the form
\* the user then submits.
ResetBackends == { {"populate"} }

\* What the user types or selects in the form in those runs.
ResetInputs ==
    { [name |-> "hcpName", value |-> "Dr. Lee"],
      [name |-> "interactionType", value |-> "Meeting"] }

\* One session of the page in which the assistant and the user fill in the
\* form, the user submits it and time passes.
ResetInit ==
    /\ chatResponse = Null /\ status = "idle" /\ error = Null
    /\ messages = <<greeting>> /\ inputMessage = "" /\ isLoading = FALSE
    /\ lastProcessedResponse = Null
    /\ formData = initialFormData /\ updatedFields = <<>> /\ timers = <<>>
    /\ isSubmitting = FALSE /\ interactions = <<>> /\ logRequests = <<>>
    /\ closureFormData = initialFormData
    /\ db = <<>> /\ reply = NoReply
    /\ inflight = {} /\ issued = 0 /\ session = 1 /\ crashed = FALSE
    /\ delivered = 0 /\ applied = NoneApplied
    /\ backend \in ResetBackends

ResetNext ==
    \/ SetInputMessage("Met Dr. Smith")
    \/ HandleSendMessage
    \/ ChatFulfilled
    \/ \E in \in ResetInputs : HandleChange(in.name, in.value)
    \/ HandleSubmit
    \/ \E addAnother \in BOOLEAN : LogFulfilled(addAnother)
    \/ LogRejected
    \/ TimerFires
    \/ Tick

ResetSpec == ResetInit /\ [][ResetNext]_vars

\* The same session with time passing: the event loop runs every setTimeout
\* callback that is due, and the clock does not stop.
EditLive == EditSpec /\ WF_vars(TimerFires) /\ WF_vars(Tick)

\* ------------------------------------------------------------------- slice
\* The state of the interactions slice.
Store ==
    [interactions |-> interactions, chatResponse |-> chatResponse,
     status |-> status, error |-> error]

\* list.findIndex(int => int.id === id), counted from 1; 0 for JavaScript's -1.
FindIndex(list, id) ==
    IF \E i \in DOMAIN list : list[i].id = id
    THEN CHOOSE i \in DOMAIN list :
           list[i].id = id /\ \A j \in DOMAIN list : list[j].id = id => i <= j
    ELSE 0

\* A reducer whose fulfilled update inserts a record it does not find.
interactionsReducerUpserting(state, action) ==
    CASE action.phase = "pending" -> [state EXCEPT !.status = "loading"]
      [] action.phase = "rejected"
           -> [state EXCEPT !.status = "failed", !.error = action.payload]
      [] action.phase = "fulfilled" /\ action.thunk = "logInteraction"
           -> [state EXCEPT !.status = "succeeded",
                            !.interactions = Append(@, action.payload)]
      [] action.phase = "fulfilled" /\ action.thunk = "updateInteraction"
           -> LET index == FindIndex(state.interactions, action.payload.id)
              IN IF index # 0
                 THEN [state EXCEPT !.status = "succeeded",
                                    !.interactions[index] = action.payload]
                 ELSE [state EXCEPT !.status = "succeeded",
                                    !.interactions = Append(@, action.payload)]
      [] action.phase = "fulfilled" /\ action.thunk = "getInteractionsForHCP"
           -> [state EXCEPT !.status = "succeeded",
                            !.interactions = action.payload]
      [] action.phase = "fulfilled" /\ action.thunk = "chatWithAgent"
           -> [state EXCEPT !.status = "succeeded",
                            !.chatResponse = action.payload]

\* A reducer whose rejected cases drop the last chat response.
interactionsReducerForgetful(state, action) ==
    CASE action.phase = "pending" -> [state EXCEPT !.status = "loading"]
      [] action.phase = "rejected"
           -> [state EXCEPT !.status = "failed", !.error = action.payload,
                            !.chatResponse = Null]
      [] action.phase = "fulfilled" /\ action.thunk = "logInteraction"
           -> [state EXCEPT !.status = "succeeded",
                            !.interactions = Append(@, action.payload)]
      [] action.phase = "fulfilled" /\ action.thunk = "updateInteraction"
           -> LET index == FindIndex(state.interactions, action.payload.id)
              IN IF index # 0
                 THEN [state EXCEPT !.status = "succeeded",
                                    !.interactions[index] = action.payload]
                 ELSE [state EXCEPT !.status = "succeeded"]
      [] action.phase = "fulfilled" /\ action.thunk = "getInteractionsForHCP"
           -> [state EXCEPT !.status = "succeeded",
                            !.interactions = action.payload]
      [] action.phase = "fulfilled" /\ action.thunk = "chatWithAgent"
           -> [state EXCEPT !.status = "succeeded",
                            !.chatResponse = action.payload]

\* extraReducers of interactionsSlice: one case per thunk and phase.
interactionsReducer(state, action) ==
    CASE action.phase = "pending" -> [state EXCEPT !.status = "loading"]
      [] action.phase = "rejected"
           -> [state EXCEPT !.status = "failed", !.error = action.payload]
      [] action.phase = "fulfilled" /\ action.thunk = "logInteraction"
           -> [state EXCEPT !.status = "succeeded",
                            !.interactions = Append(@, action.payload)]
      [] action.phase = "fulfilled" /\ action.thunk = "updateInteraction"
           -> LET index == FindIndex(state.interactions, action.payload.id)
              IN IF index # 0
                 THEN [state EXCEPT !.status = "succeeded",
                                    !.interactions[index] = action.payload]
                 ELSE [state EXCEPT !.status = "succeeded"]
      [] action.phase = "fulfilled" /\ action.thunk = "getInteractionsForHCP"
           -> [state EXCEPT !.status = "succeeded",
                            !.interactions = action.payload]
      [] action.phase = "fulfilled" /\ action.thunk = "chatWithAgent"
           -> [state EXCEPT !.status = "succeeded",
                            !.chatResponse = action.payload]

\* The four thunks of the slice.
Thunks ==
    {"logInteraction", "updateInteraction", "getInteractionsForHCP",
     "chatWithAgent"}

\* Interaction records as the server returns them.
Records == [id : 1..MaxId, hcp_name : {S("Dr. Smith"), S("Dr. Lee")}]

\* The lists the server returns for one HCP: records of that HCP, no id twice.
Histories ==
    { list \in UNION { [1..n -> Records] : n \in 0..MaxHistory } :
        \A i, j \in DOMAIN list :
          /\ list[i].hcp_name = list[j].hcp_name
          /\ list[i].id = list[j].id => i = j }

\* response.data of a fulfilled request of each thunk: a created record under
\* an id no stored record has, an updated record, a list, a chat response.
Payloads(thunk) ==
    CASE thunk = "logInteraction"
           -> { r \in Records :
                  \A i \in DOMAIN interactions : interactions[i].id # r.id }
      [] thunk = "updateInteraction" -> Records
      [] thunk = "getInteractionsForHCP" -> Histories
      [] thunk = "chatWithAgent" -> {S(PlainText), Response("plain", 1)}

\* action.payload of a rejected request: error.response.data of a response
\* with an error status, or nothing when no response came (error.response is
\* undefined, the catch block throws and rejectWithValue is never reached).
Rejections == Errors \cup {S("Not Found"), Undefined}

\* The store after the reducer has handled action.
Reduce(action) ==
    LET next == interactionsReducer(Store, action)
    IN /\ interactions' = next.interactions
       /\ chatResponse' = next.chatResponse
       /\ status' = next.status
       /\ error' = next.error
       /\ UNCHANGED <<messages, inputMessage, isLoading, lastProcessedResponse,
                      formVars, isSubmitting, closureFormData, logRequests,
                      inflight, issued, session, crashed, delivered, applied,
                      backend, agentVars>>

\* The pending action of a thunk reaches the store; it carries no payload.
Pending(thunk) ==
    Reduce([thunk |-> thunk, phase |-> "pending", payload |-> Undefined])

\* The fulfilled action of a thunk reaches the store.
Fulfilled(thunk, payload) ==
    Reduce([thunk |-> thunk, phase |-> "fulfilled", payload |-> payload])

\* The rejected action of a thunk reaches the store.
Rejected(thunk, payload) ==
    Reduce([thunk |-> thunk, phase |-> "rejected", payload |-> payload])

\* The store alone, under the actions of its four thunks.
SliceInit ==
    /\ chatResponse = Null /\ status = "idle" /\ error = Null
    /\ messages = <<greeting>> /\ inputMessage = "" /\ isLoading = FALSE
    /\ lastProcessedResponse = Null
    /\ formData = initialFormData /\ updatedFields = <<>> /\ timers = <<>>
    /\ isSubmitting = FALSE /\ interactions = <<>> /\ logRequests = <<>>
    /\ closureFormData = initialFormData
    /\ db = <<>> /\ reply = NoReply
    /\ inflight = {} /\ issued = 0 /\ session = 1 /\ crashed = FALSE
    /\ delivered = 0 /\ applied = NoneApplied
    /\ backend \in SubmitBackends

SliceNext ==
    \/ \E thunk \in Thunks : Pending(thunk)
    \/ \E thunk \in Thunks : \E payload \in Payloads(thunk) :
         Fulfilled(thunk, payload)
    \/ \E thunk \in Thunks : \E payload \in Rejections : Rejected(thunk, payload)

SliceSpec == SliceInit /\ [][SliceNext]_vars

\* ------------------------------------------------------------------- agent
\* A text the agent handles is the sequence of its parts: the prefix
\* character "-", a run of whitespace " ", or a run of other characters.

\* str.startswith(prefix) for a one-character prefix.
StartsWith(text, prefix) == text # <<>> /\ Head(text) = prefix

RECURSIVE LStrip(_)
LStrip(text) ==
    IF text # <<>> /\ Head(text) = " " THEN LStrip(Tail(text)) ELSE text

RECURSIVE RStrip(_)
RStrip(text) ==
    IF text # <<>> /\ text[Len(text)] = " "
    THEN RStrip(SubSeq(text, 1, Len(text) - 1)) ELSE text

\* str.strip()
Strip(text) == RStrip(LStrip(text))

\* The explicit task command, verb then argument: the verb names one member
\* of the tool set, and a verb that names none is an ERROR outcome naming it.
route_task_command(command) ==
    LET verb == IF command = <<>> THEN "" ELSE Head(command)
        argument == IF command = <<>> THEN <<>> ELSE Strip(Tail(command))
    IN CASE verb = "Show me history for"
              -> [tool |-> "get_interaction_history",
                  params |-> [hcpName |-> argument]]
         [] verb = "Log"
              -> [tool |-> "log_interaction",
                  params |-> [raw_interaction_text |-> argument]]
         [] OTHER -> [tool |-> "error", params |-> [verb |-> verb]]

\* A router that hands the command on without stripping it.
determine_intent_and_route_unstripped(user_input) ==
    IF StartsWith(user_input, "-")
    THEN route_task_command(Tail(user_input))
    ELSE [tool |-> "general_conversation",
          params |-> [user_input |-> user_input]]

\* determine_intent_and_route(user_input)
determine_intent_and_route(user_input) ==
    IF StartsWith(user_input, "-")
    THEN route_task_command(Strip(Tail(user_input)))
    ELSE [tool |-> "general_conversation",
          params |-> [user_input |-> user_input]]

\* What the user sends to the agent.
RouterInputs ==
    { <<"hello">>,
      <<>>,
      <<"Show me history for", " ", "Dr. Smith">>,
      <<" ", "-", "Show me history for", " ", "Dr. Smith">>,
      <<"-", "Show me history for", " ", "Dr. Smith">>,
      <<"-", " ", "Show me history for", " ", "Dr. Smith", " ">>,
      <<"-", "Log", " ", "Met Dr. Lee today">>,
      <<"-", "Dance", " ", "with me">>,
      <<"-">> }

Yesterday == "2025-01-14"

\* The flexible date parser: relative phrases, else the date as written.
parse_date_flexibly(phrase) ==
    CASE phrase = "today" -> Today
      [] phrase = "yesterday" -> Yesterday
      [] OTHER -> phrase

\* dict.get(key, default)
Get(dict, key, default) == IF key \in DOMAIN dict THEN dict[key] ELSE default

\* What extract_entities_and_summarize finds when it finds everything.
AllEntities ==
    [hcp_name |-> "Dr. Smith", interaction_date |-> "2025-01-10",
     interaction_type |-> "Call", summary |-> "Discussed efficacy",
     sentiment |-> "Positive"]

\* What the extraction can return: any subset of the entities, none included.
Extractions == { [k \in K |-> AllEntities[k]] : K \in SUBSET DOMAIN AllEntities }

\* A log_interaction that stores the defaults whatever was extracted.
log_interaction_defaults_only(records, entities) ==
    LET interaction ==
          [id |-> Len(records) + 1,
           hcp_name |-> "Unknown",
           interaction_date |-> parse_date_flexibly("today"),
           interaction_type |-> "Meeting",
           summary |-> "",
           sentiment |-> "Neutral"]
    IN [db |-> Append(records, interaction),
        reply |-> [tool |-> "log_interaction",
                   text |-> <<"Successfully logged interaction with",
                              interaction.hcp_name>>]]

\* log_interaction(raw_interaction_text), over the entities the extraction
\* returned for the text: the record is created, added and committed, and
\* the confirmation returned.
log_interaction(records, entities) ==
    LET interaction ==
          [id |-> Len(records) + 1,
           hcp_name |-> Get(entities, "hcp_name", "Unknown"),
           interaction_date |->
               parse_date_flexibly(Get(entities, "interaction_date", "today")),
           interaction_type |-> Get(entities, "interaction_type", "Meeting"),
           summary |-> Get(entities, "summary", ""),
           sentiment |-> Get(entities, "sentiment", "Neutral")]
    IN [db |-> Append(records, interaction),
        reply |-> [tool |-> "log_interaction",
                   text |-> <<"Successfully logged interaction with",
                              interaction.hcp_name>>]]

\* edit_interaction(id, instruction), the instruction already understood as
\* the field to change and its new value: NotFound without such a record,
\* else the record is fetched, changed and written back.
edit_interaction(records, id, instruction) ==
    LET found == {i \in DOMAIN records : records[i].id = id}
    IN IF found = {}
       THEN [db |-> records,
             reply |-> [tool |-> "edit_interaction", outcome |-> "NotFound"]]
       ELSE LET i == CHOOSE i \in found : TRUE
            IN [db |-> [records EXCEPT ![i] =
                          [f \in DOMAIN records[i] |->
                             IF f = instruction.field THEN instruction.value
                             ELSE records[i][f]]],
                reply |-> [tool |-> "edit_interaction", outcome |-> "Edited",
                           id |-> id]]

\* An edit by name that picks the most recent of several matching records.
edit_interaction_by_name_most_recent(records, hcpName, instruction) ==
    LET matches == {i \in DOMAIN records : records[i].hcp_name = hcpName}
    IN IF matches = {}
       THEN [db |-> records,
             reply |-> [tool |-> "edit_interaction_by_name",
                        outcome |-> "NotFound"]]
       ELSE edit_interaction(records,
                records[CHOOSE i \in matches : \A j \in matches : j <= i].id,
                instruction)

\* edit_interaction_by_name(hcpName, instruction): NotFound with no matching
\* record, a request to disambiguate with several, the edit with one.
edit_interaction_by_name(records, hcpName, instruction) ==
    LET matches == {i \in DOMAIN records : records[i].hcp_name = hcpName}
    IN IF matches = {}
       THEN [db |-> records,
             reply |-> [tool |-> "edit_interaction_by_name",
                        outcome |-> "NotFound"]]
       ELSE IF Cardinality(matches) > 1
       THEN [db |-> records,
             reply |-> [tool |-> "edit_interaction_by_name",
                        outcome |-> "AmbiguousReference",
                        candidates |-> {records[i].id : i \in matches}]]
       ELSE edit_interaction(records,
                records[CHOOSE i \in matches : TRUE].id, instruction)

\* The names the user asks to edit by, and what the edits ask for.
EditNames == {"Dr. Smith", "Unknown", "Dr. Lee"}
EditInstructions == { [field |-> "sentiment", value |-> "Negative"] }

\* The router is called with user_input.
Route(user_input) ==
    /\ reply' = determine_intent_and_route(user_input)
    /\ UNCHANGED <<db, clientVars>>

\* The tool log_interaction runs on a text for which the extraction returns
\* entities.
LogInteraction(entities) ==
    /\ Len(db) < MaxRecords
    /\ LET done == log_interaction(db, entities)
       IN db' = done.db /\ reply' = done.reply
    /\ UNCHANGED clientVars

\* The tool edit_interaction_by_name runs.
EditInteractionByName(hcpName, instruction) ==
    /\ LET done == edit_interaction_by_name(db, hcpName, instruction)
       IN db' = done.db /\ reply' = done.reply
    /\ UNCHANGED clientVars

\* The agent alone, called by one user.
AgentInit ==
    /\ chatResponse = Null /\ status = "idle" /\ error = Null
    /\ messages = <<greeting>> /\ inputMessage = "" /\ isLoading = FALSE
    /\ lastProcessedResponse = Null
    /\ formData = initialFormData /\ updatedFields = <<>> /\ timers = <<>>
    /\ isSubmitting = FALSE /\ interactions = <<>> /\ logRequests = <<>>
    /\ closureFormData = initialFormData
    /\ inflight = {} /\ issued = 0 /\ session = 1 /\ crashed = FALSE
    /\ delivered = 0 /\ applied = NoneApplied
    /\ backend \in SubmitBackends
    /\ db = <<>> /\ reply = NoReply

AgentNext ==
    \/ \E user_input \in RouterInputs : Route(user_input)
    \/ \E entities \in Extractions : LogInteraction(entities)
    \/ \E hcpName \in EditNames : \E instruction \in EditInstructions :
         EditInteractionByName(hcpName, instruction)

AgentSpec == AgentInit /\ [][AgentNext]_vars

\* ------------------------------------------------------------------ claims
\* The step in which the thunk of request r is fulfilled and its response
\* reaches the store and the mounted session.
Arrives(r) ==
    r \in inflight /\ inflight' = inflight \ {r} /\ status' = "succeeded"

\* The step in which the thunk of request r is rejected.
Fails(r) ==
    r \in inflight /\ inflight' = inflight \ {r} /\ status' = "failed"

LastMessage(log) == log[Len(log)]

\* C1: a response that belongs to a request older than the most recently
\* issued one (its token is lower than the highest issued token) is discarded
\* when it arrives and leaves Form State (values and highlight flags) unchanged.
C1_StaleResponseDiscarded ==
    [][\A r \in inflight :
         (Arrives(r) /\ r.token < issued)
           => /\ formData' = formData
              /\ updatedFields' = updatedFields]_vars

\* C2: while isLoading is true handleSendMessage dispatches no request and
\* appends no user message, so that in every reachable state at most one chat
\* request of a session is in flight.
C2_OneRequestInFlight ==
    [][/\ (isLoading /\ HandleSendMessage)
            => (inflight' = inflight /\ messages' = messages)
       /\ \A s \in 1..MaxSessions :
            Cardinality({r \in inflight' : r.session = s}) <= 1]_vars

\* C3: after the mounted session receives the response to its pending
\* request, isLoading is false, whatever envelope object the response is.
C3_IdleAfterResponse ==
    [][\A r \in inflight :
         (Arrives(r) /\ r.session = session /\ ~crashed
            /\ chatResponse'.t = "object")
           => isLoading' = FALSE]_vars

\* C4: when the chat request of the mounted session is rejected, an assistant
\* message flagged as error is appended and isLoading becomes false, so that
\* a further message can be sent.
C4_IdleAfterRejection ==
    [][\A r \in inflight :
         (Fails(r) /\ r.session = session /\ ~crashed)
           => /\ Len(messages') = Len(messages) + 1
              /\ LastMessage(messages').type = "assistant"
              /\ LastMessage(messages').isError
              /\ isLoading' = FALSE]_vars

\* The step in which the mounted session's effect processes the response the
\* store holds after the step (on arrival, or in the first run after a mount).
Processes ==
    /\ ~crashed'
    /\ Truthy(chatResponse')
    /\ lastProcessedResponse' = chatResponse'
    /\ (lastProcessedResponse # chatResponse' \/ session' # session)

\* The response being processed, as the effect reads it (parsed if a string).
Envelope == ParseResponse(chatResponse')
EnvelopeType == Prop(Envelope, "response_type")

\* Form State and log the effect starts from: the mounted session's own, which
\* are the initial ones in the effect's first run after a mount.
FormDataBefore == IF session' # session THEN initialFormData ELSE formData
UpdatedFieldsBefore == IF session' # session THEN <<>> ELSE updatedFields
MessagesBefore == IF session' # session THEN <<greeting>> ELSE messages

\* The (field, value) pairs an envelope carries: the entries of the
\* field_updates list of a FORM_POPULATE, the field and value of a FORM_UPDATE
\* that names a field (a non-empty field name) and has a value.
PairsCarried(env) ==
    CASE Prop(env, "response_type") = S("FORM_POPULATE")
           /\ env.field_updates.t = "array" -> env.field_updates.v
      [] Prop(env, "response_type") = S("FORM_UPDATE")
           /\ IsString(env.field) /\ env.field.v # "" /\ IsString(env.value) ->
           <<Pair(env.field, env.value)>>
      [] OTHER -> <<>>

\* normalize of the specification (4.1): the alias resolved case-insensitively,
\* unknown aliases unchanged; the value mapped only for the enumerated fields.
CanonicalField(alias) ==
    IF ToLowerCase(alias) \in DOMAIN fieldMapping
    THEN fieldMapping[ToLowerCase(alias)] ELSE alias

CanonicalValue(alias, raw) ==
    LET table == CASE CanonicalField(alias) = "hcpSentiment" -> sentimentMap
                   [] CanonicalField(alias) = "interactionType" -> typeMap
                   [] OTHER -> <<>>
    IN IF ToLowerCase(raw) \in DOMAIN table THEN table[ToLowerCase(raw)] ELSE raw

C6_HighlightFullWindow ==
    [][\A f \in DOMAIN updatedFields :
         (session' = session /\ updatedFields[f] /\ ~Highlighted(updatedFields', f))
           => \A i \in DOMAIN timers' :
                timers'[i].field = f => timers'[i].left = 0]_vars

\* C7: processing an ERROR envelope appends exactly one assistant message
\* flagged as error and leaves every Form State value and every highlight flag
\* as it was.
C7_ErrorEnvelope ==
    [][(Processes /\ EnvelopeType = S("ERROR"))
         => /\ Len(messages') = Len(MessagesBefore) + 1
            /\ SubSeq(messages', 1, Len(MessagesBefore)) = MessagesBefore
            /\ LastMessage(messages').type = "assistant"
            /\ LastMessage(messages').isError
            /\ formData' = FormDataBefore
            /\ updatedFields' = UpdatedFieldsBefore]_vars

\* C7 witness: an ERROR envelope was processed by a session whose form holds
\* an applied update that is still highlighted.
C7_Witness ==
    /\ Prop(chatResponse, "response_type") = S("ERROR")
    /\ lastProcessedResponse = chatResponse
    /\ LastMessage(messages).isError
    /\ LastMessage(messages).responseType = "ERROR"
    /\ formData.hcpSentiment = S("Positive")
    /\ Highlighted(updatedFields, "hcpSentiment")

\* C8: a response delivered as a string that JSON.parse rejects is surfaced as
\* one plain assistant message whose content is the raw string, nothing is
\* thrown and Form State is unchanged.
C8_MalformedTextSurfaced ==
    [][\A r \in inflight :
         (Arrives(r) /\ ~crashed /\ IsString(chatResponse')
            /\ ~JSONParse(chatResponse'.v).ok)
           => /\ messages' = Append(messages,
                    Message("assistant", chatResponse', FALSE, FALSE, "none"))
              /\ ~crashed'
              /\ formData' = formData
              /\ updatedFields' = updatedFields]_vars

\* C9: every response delivered as text is processed without a crash: one
\* assistant message is appended and isLoading is false afterwards, also for
\* text that parses to a JSON value that is no envelope object.
C9_TextNeverCrashes ==
    [][\A r \in inflight :
         (Arrives(r) /\ ~crashed /\ IsString(chatResponse'))
           => /\ ~crashed'
              /\ Len(messages') = Len(messages) + 1
              /\ LastMessage(messages').type = "assistant"
              /\ isLoading' = FALSE]_vars

Normalize(field, value) ==
    LET r == handleFormUpdate(initialForm, field, value)
    IN IF r.threw THEN [threw |-> TRUE, field |-> field, value |-> value]
       ELSE LET k == r.form.timers[1].field
            IN [threw |-> FALSE, field |-> S(k), value |-> r.form.formData[k]]

\* C11: normalization is idempotent: for every (field, value) pair of strings
\* an applied envelope carries, normalizing the normalized pair again does not
\* fail and returns the same (field, value) pair.
C11_NormalizeIdempotent ==
    [][(Processes /\ EnvelopeType \in {S("FORM_POPULATE"), S("FORM_UPDATE")})
         => \A i \in DOMAIN PairsCarried(Envelope) :
              LET pair == PairsCarried(Envelope)[i]
                  once == Normalize(pair.field, pair.value)
                  twice == Normalize(once.field, once.value)
              IN /\ ~once.threw
                 /\ ~twice.threw
                 /\ twice.field = once.field
                 /\ twice.value = once.value]_vars

\* The canonical fields: the keys Form State is created with.
CanonicalFields == DOMAIN initialFormData

\* C12: alias closure: for every canonical field of the form the alias table
\* holds an entry whose alias is the field's own name (as the lookup reads it,
\* lower-cased) and whose target is that field.
C12_AliasClosure ==
    \A c \in CanonicalFields \cap DOMAIN formData :
      \E alias \in DOMAIN fieldMapping :
        alias = ToLowerCase(c) /\ fieldMapping[alias] = c

\* The written key of the pair a FORM_UPDATE envelope carries: the field of the
\* setTimeout callback the step armed.
WrittenField == timers'[Len(timers')].field

\* C13: alias lookup is case-insensitive and falls through: the pair of an
\* applied FORM_UPDATE is written under the table's target for the lower-cased
\* alias (so aliases that differ only in case share it), and under the alias
\* string itself, unchanged, when the lower-cased alias is no table entry.
C13_AliasLookup ==
    [][(Processes /\ EnvelopeType = S("FORM_UPDATE")
          /\ PairsCarried(Envelope) # <<>>)
         => LET alias == PairsCarried(Envelope)[1].field.v
            IN /\ Len(timers') = Len(timers) + 1
               /\ ToLowerCase(alias) \in DOMAIN fieldMapping
                    => WrittenField = fieldMapping[ToLowerCase(alias)]
               /\ ToLowerCase(alias) \notin DOMAIN fieldMapping
                    => WrittenField = alias]_vars

\* C14: value mapping applies only to the enumerated fields: the pair of an
\* applied FORM_UPDATE writes, for hcpSentiment and interactionType, the
\* table's value for the lower-cased raw value, or the raw value unchanged when
\* the table has none; for every other field it writes the raw value unchanged.
C14_ValueMapping ==
    [][(Processes /\ EnvelopeType = S("FORM_UPDATE")
          /\ PairsCarried(Envelope) # <<>>)
         => LET raw == PairsCarried(Envelope)[1].value.v
                table == CASE WrittenField = "hcpSentiment" -> sentimentMap
                           [] WrittenField = "interactionType" -> typeMap
                           [] OTHER -> <<>>
            IN /\ Len(timers') = Len(timers) + 1
               /\ formData'[WrittenField] =
                    IF ToLowerCase(raw) \in DOMAIN table
                    THEN S(table[ToLowerCase(raw)]) ELSE S(raw)]_vars

\* The pairs an envelope names: those it carries, or for a FORM_POPULATE
\* without a field_updates list those of the JSON text in its message.
NamedPairs(env) ==
    IF /\ Prop(env, "response_type") = S("FORM_POPULATE")
       /\ ~Truthy(env.field_updates)
       /\ IsString(env.message)
       /\ JSONParse(env.message.v).ok
       /\ Prop(JSONParse(env.message.v).value, "field_updates").t = "array"
    THEN JSONParse(env.message.v).value.field_updates.v
    ELSE PairsCarried(env)

\* The Form State fields an envelope names: what its aliases resolve to.
NamedFields(env) ==
    {ToStr(FormFieldName(NamedPairs(env)[i].field)) : i \in DOMAIN NamedPairs(env)}

\* C15: applying an envelope changes only the Form State fields it names:
\* every other field keeps the value and the highlight flag it had before the
\* step, whatever the user typed or clicked before (also while the request
\* was in flight), and a user edit changes no field but the one edited.
C15_FrameOfEnvelope ==
    [][/\ Processes
         => \A k \in DOMAIN FormDataBefore \ NamedFields(Envelope) :
              /\ k \in DOMAIN formData'
              /\ formData'[k] = FormDataBefore[k]
              /\ Highlighted(updatedFields', k)
                   = Highlighted(UpdatedFieldsBefore, k)
       /\ \A in \in EditInputs :
            HandleChange(in.name, in.value)
              => \A k \in DOMAIN formData \ {in.name} :
                   k \in DOMAIN formData' /\ formData'[k] = formData[k]
       /\ \A sentiment \in Sentiments :
            HandleSentimentChange(sentiment)
              => \A k \in DOMAIN formData \ {"hcpSentiment"} :
                   k \in DOMAIN formData' /\ formData'[k] = formData[k]]_vars

\* C15 witness: the name the user typed is still in the form after a
\* FORM_UPDATE of the sentiment was applied (its highlight timer has not run).
C15_Witness ==
    /\ Prop(chatResponse, "response_type") = S("FORM_UPDATE")
    /\ lastProcessedResponse = chatResponse
    /\ formData.hcpName = S("Dr. Lee")
    /\ formData.hcpSentiment = S("Positive")
    /\ Highlighted(updatedFields, "hcpSentiment")
    /\ timers # <<>>
    /\ timers[Len(timers)] = [field |-> "hcpSentiment", left |-> HighlightWindow]

C17_LogAppendOnly ==
    [][session' = session
         => /\ Len(messages') >= Len(messages)
            /\ SubSeq(messages', 1, Len(messages)) = messages]_vars

\* C17 witness: a session's log after two exchanges: the greeting, then user
\* and assistant messages in the order they were appended.
C17_Witness ==
    /\ Len(messages) = 5
    /\ messages[1] = greeting
    /\ messages[2].type = "user" /\ messages[3].type = "assistant"
    /\ messages[4].type = "user" /\ messages[5].type = "assistant"

\* C18: processing an envelope object with no recognized response type
\* appends one conversational assistant message whose content is the
\* envelope's message text verbatim, for every message text, and leaves Form
\* State unchanged.
C18_PlainVerbatim ==
    [][(/\ Processes
        /\ chatResponse'.t = "object"
        /\ EnvelopeType \notin {S("FORM_POPULATE"), S("FORM_UPDATE"), S("ERROR")}
        /\ IsString(Envelope.message))
         => /\ messages' = Append(MessagesBefore,
                  Message("assistant", Envelope.message, FALSE, FALSE, "none"))
            /\ formData' = FormDataBefore
            /\ updatedFields' = UpdatedFieldsBefore]_vars

\* The fields the envelopes of a run can highlight.
HighlightFields ==
    CanonicalFields \cup {"Notes", "function Object() { [native code] }"}

\* C19: every field that enters RecentlyUpdated returns to Idle: a flag is
\* raised only by an update of its field, it is true only while a timer of the
\* field is pending, and once no further update arrives it becomes false and
\* stays false.
C19_HighlightReverts ==
    /\ [][\A f \in HighlightFields :
            (~Highlighted(updatedFields, f) /\ Highlighted(updatedFields', f))
              => (Processes /\ f \in NamedFields(Envelope))]_vars
    /\ [](\A f \in HighlightFields :
            Highlighted(updatedFields, f)
              => \E i \in DOMAIN timers : timers[i].field = f)
    /\ \A f \in HighlightFields : <>[](~Highlighted(updatedFields, f))

\* C19 witness: a field that was highlighted by an update is Idle again after
\* its timer ran, with no timer left.
C19_Witness ==
    /\ formData.hcpSentiment = S("Positive")
    /\ "hcpSentiment" \in DOMAIN updatedFields
    /\ ~updatedFields["hcpSentiment"]
    /\ timers = <<>>
    /\ lastProcessedResponse = chatResponse
    /\ Truthy(chatResponse)

\* The mounted session has not sent a message yet.
NoRequestOfItsOwn(log) == \A i \in DOMAIN log : log[i].type # "user"

\* C20: a newly begun session starts with the initial Form State and a log
\* holding only the greeting, and as long as it has issued no request of its
\* own nothing is applied to its Form State or appended to its log.
C20_FreshSession ==
    [][/\ session' # session
         => /\ formData' = initialFormData
            /\ updatedFields' = <<>>
            /\ messages' = <<greeting>>
       /\ (session' = session /\ NoRequestOfItsOwn(messages')
            /\ NoRequestOfItsOwn(messages))
         => /\ formData' = formData
            /\ updatedFields' = updatedFields
            /\ messages' = messages]_vars

\* Strings that are empty or hold only whitespace.
Blank == {S(""), S("  ")}

\* A required field of the form is missing.
RequiredMissing == formData.hcpName \in Blank \/ formData.interactionType = S("")

\* C21: validation is blocking and precedes any network call: whenever a
\* required field is missing (hcpName empty or whitespace-only, or
\* interactionType empty), no log request is dispatched, and handleSubmit
\* changes neither Form State nor isSubmitting.
C21_ValidationBlocks ==
    [][RequiredMissing
         => /\ Len(logRequests') <= Len(logRequests)
            /\ HandleSubmit => /\ formData' = formData
                               /\ updatedFields' = updatedFields
                               /\ isSubmitting' = isSubmitting
                               /\ status' = status]_vars

\* C21 witness: a form on which handleSubmit can run, with the type selected,
\* some outcomes typed and a whitespace-only name; nothing was submitted.
C21_Witness ==
    /\ formData.hcpName = S("  ")
    /\ formData.interactionType = S("Meeting")
    /\ formData.outcomes = S("Agreed")
    /\ ~isSubmitting /\ logRequests = <<>> /\ interactions = <<>>
    /\ ~crashed

\* The key of the create payload that corresponds to each canonical field.
PayloadKey ==
    [hcpName |-> "hcp_name", interactionType |-> "interaction_type",
     date |-> "interaction_date", time |-> "interaction_time",
     attendees |-> "attendees", topicsDiscussed |-> "key_discussion_points",
     materialsShared |-> "materials_shared",
     samplesDistributed |-> "samples_distributed", hcpSentiment |-> "sentiment",
     outcomes |-> "summary", followUpActions |-> "follow_up_actions"]

\* Every field of Form State holds a non-empty string.
FullyPopulated ==
    \A f \in CanonicalFields : IsString(formData[f]) /\ formData[f].v # ""

\* This step dispatches the log request of the form.
Submits == Len(logRequests') = Len(logRequests) + 1

\* The payload of the log request dispatched last.
Payload == logRequests[Len(logRequests)]

\* The payload has exactly one key per canonical field and no other key.
OneKeyPerField(payload) ==
    /\ DOMAIN payload = {PayloadKey[f] : f \in CanonicalFields}
    /\ \A f, g \in CanonicalFields : PayloadKey[f] = PayloadKey[g] => f = g

\* C22 as stated: submitting a fully populated Form State produces a create
\* payload with exactly one key per canonical field and no other key, each
\* carrying the value its Form State field holds at submission.
C22_PayloadRoundTrip ==
    [][FullyPopulated /\ Submits
         => /\ OneKeyPerField(Payload')
            /\ \A f \in CanonicalFields :
                 Payload'[PayloadKey[f]] = formData[f]]_vars

\* A name without the whitespace around it.
WithoutSurroundingSpace(name) ==
    IF name = S(" Dr. Lee ") THEN S("Dr. Lee") ELSE name

\* C22 amended: submitting a fully populated Form State produces a create
\* payload with exactly one key per canonical field and no other key; hcp_name
\* carries the name without its surrounding whitespace, and every other key
\* the value its Form State field holds at submission.
C22_PayloadRoundTripTrimmed ==
    [][FullyPopulated /\ Submits
         => /\ OneKeyPerField(Payload')
            /\ Payload'.hcp_name = WithoutSurroundingSpace(formData.hcpName)
            /\ \A f \in CanonicalFields \ {"hcpName"} :
                 Payload'[PayloadKey[f]] = formData[f]]_vars

\* C22 witness: the log request of a fully populated form whose name was typed
\* with spaces around it is pending, and the form still holds what was sent.
C22_Witness ==
    /\ FullyPopulated
    /\ formData.hcpName = S(" Dr. Lee ")
    /\ isSubmitting
    /\ Len(logRequests) = 1
    /\ Payload.hcp_name = S("Dr. Lee")
    /\ Payload.summary = formData.outcomes
    /\ Payload.key_discussion_points = formData.topicsDiscussed

\* C26: every fulfilled chat request is processed exactly once: its response
\* appends one assistant message to the log of the session that sent it and
\* resets isLoading to false, for every payload value, a payload equal to the
\* previous response's payload and an empty payload included (responses on
\* which the effect throws aside).
C26_FulfilledProcessedOnce ==
    [][\A r \in inflight :
         (Arrives(r) /\ r.session = session /\ ~crashed /\ ~crashed')
           => /\ Len(messages') = Len(messages) + 1
              /\ SubSeq(messages', 1, Len(messages)) = messages
              /\ messages'[Len(messages')].type = "assistant"
              /\ applied'[r.token] = applied[r.token] + 1
              /\ isLoading' = FALSE]_vars

\* C27: the formData carried by a chat request equals the Form State at the
\* moment the message is sent, whatever form edits, envelope applications and
\* typing in the chat input came before the send.
C27_RequestCarriesFormState ==
    [][\A r \in inflight' \ inflight : r.formData = formData]_vars

\* The log request of the form settles in this step.
LogSettles == Len(logRequests') < Len(logRequests)

\* Form State as resetForm leaves it.
ResetFormData == resetForm(initialForm).formData

\* C28: a submission that fails leaves every field of Form State unchanged;
\* Form State is reset only by a fulfilled submission that the user confirms
\* with 'add another', and a fulfilled submission that the user declines
\* leaves Form State unchanged as well.
C28_ResetOnlyOnConfirmedSuccess ==
    [][/\ (LogSettles /\ status' = "failed")
            => (formData' = formData /\ updatedFields' = updatedFields)
       /\ LogFulfilled(FALSE)
            => (formData' = formData /\ updatedFields' = updatedFields)
       /\ (LogFulfilled(TRUE) /\ ~crashed) => formData' = ResetFormData
       /\ (formData' = ResetFormData /\ formData # ResetFormData)
            => (LogSettles /\ status' = "succeeded")]_vars

\* C28 witness: the submission of a filled-in form has failed and the form
\* still holds what the user entered.
C28_Witness ==
    /\ status = "failed" /\ issued = 0
    /\ logRequests = <<>> /\ ~isSubmitting /\ interactions = <<>>
    /\ formData.hcpName = S(" Dr. Lee ")
    /\ formData.interactionType = S("Meeting")
    /\ formData.outcomes = S("Agreed")

\* C29: double submission is prevented: while isSubmitting is true nothing is
\* dispatched, so at most one log request of the form is in flight; and when a
\* submission settles, fulfilled or rejected, isSubmitting returns to false,
\* so that the form can be submitted again.
C29_NoDoubleSubmission ==
    /\ [](Len(logRequests) <= 1)
    /\ [][/\ isSubmitting => Len(logRequests') <= Len(logRequests)
          /\ LogSettles => ~isSubmitting']_vars

\* C29 witness: a first submission was rejected and the form has been
\* submitted again; that second request is the only one in flight.
C29_Witness ==
    /\ error # Null /\ issued = 0 /\ interactions = <<>>
    /\ isSubmitting
    /\ Len(logRequests) = 1

\* C30: in the interactions slice, status is 'loading' in every state in which
\* at least one async request (a chat request or the log request of the form)
\* is still pending, however the pending, fulfilled and rejected actions of
\* overlapping requests interleave.
C30_LoadingWhilePending ==
    (inflight # {} \/ logRequests # <<>>) => status = "loading"

\* The parts of a text that are neither the prefix nor whitespace.
Words(text) == SelectSeq(text, LAMBDA part : part \notin {"-", " "})

\* The tool a verb names, and the parameter that takes its argument.
VerbTool(verb) ==
    CASE verb = "Show me history for"
           -> [tool |-> "get_interaction_history", param |-> "hcpName"]
      [] verb = "Log"
           -> [tool |-> "log_interaction", param |-> "raw_interaction_text"]
      [] OTHER -> [tool |-> "none", param |-> "none"]

Matching(hcpName) == {i \in DOMAIN db : db[i].hcp_name = hcpName}

\* C24: ambiguity safety: edit_interaction_by_name with a name that matches
\* more than one stored record returns an AmbiguousReference outcome and
\* modifies no stored record; with no match it returns NotFound; only with
\* exactly one match does it edit that record, and no other.
C24_AmbiguitySafety ==
    [][\A hcpName \in EditNames : \A instruction \in EditInstructions :
         EditInteractionByName(hcpName, instruction)
           => /\ Cardinality(Matching(hcpName)) > 1
                   => (reply'.outcome = "AmbiguousReference" /\ db' = db)
              /\ Matching(hcpName) = {}
                   => (reply'.outcome = "NotFound" /\ db' = db)
              /\ Cardinality(Matching(hcpName)) = 1
                   => /\ reply'.outcome = "Edited"
                      /\ Len(db') = Len(db)
                      /\ \A i \in DOMAIN db :
                           IF i \in Matching(hcpName)
                           THEN /\ db'[i][instruction.field] = instruction.value
                                /\ \A f \in DOMAIN db[i] \ {instruction.field} :
                                     db'[i][f] = db[i][f]
                           ELSE db'[i] = db[i]]_vars

\* C24 witness: two records are stored under one name, an edit by that name
\* was answered with AmbiguousReference, and both records are as logged.
C24_Witness ==
    /\ Len(db) = 2
    /\ db[1].hcp_name = "Dr. Smith" /\ db[2].hcp_name = "Dr. Smith"
    /\ db[1].sentiment = "Positive" /\ db[2].sentiment = "Neutral"
    /\ reply.tool = "edit_interaction_by_name"
    /\ reply.outcome = "AmbiguousReference"

C31_ErrorDescribesCurrentFailure ==
    /\ [](status # "failed" => error = Null)
    /\ [][status' = "failed" =>
            \/ \E thunk \in Thunks : \E payload \in Rejections :
                 Rejected(thunk, payload) /\ error' = payload
            \/ status = "failed" /\ error' = error]_vars

\* C32: a fulfilled update replaces the stored interaction whose id is the
\* payload's id with the payload and leaves the length, the order and every
\* other entry of the list as they were; when no stored interaction has that
\* id the list is unchanged and the payload is not inserted.
C32_UpdateReplacesInPlace ==
    [][\A payload \in Records :
         Fulfilled("updateInteraction", payload) =>
           /\ Len(interactions') = Len(interactions)
           /\ \A i \in DOMAIN interactions :
                interactions'[i] = IF interactions[i].id = payload.id
                                   THEN payload
                                   ELSE interactions[i]]_vars

\* The store after successful requests holds two records of different HCPs,
\* so an update has one entry to replace and another to leave alone.
C32_Witness ==
    /\ status = "succeeded"
    /\ Len(interactions) = 2
    /\ interactions[1].hcp_name # interactions[2].hcp_name

\* C33: every pending and every rejected action leaves interactions and
\* chatResponse unchanged; interactions changes only on a fulfilled log, which
\* appends exactly the payload at the end, on a fulfilled update, or on a
\* fulfilled history fetch, which replaces the whole list; chatResponse
\* changes only on a fulfilled chat request.
C33_SliceFrame ==
    [][/\ \A thunk \in Thunks :
            Pending(thunk) => UNCHANGED <<interactions, chatResponse>>
       /\ \A thunk \in Thunks : \A payload \in Rejections :
            Rejected(thunk, payload) => UNCHANGED <<interactions, chatResponse>>
       /\ interactions' # interactions =>
            \/ \E payload \in Payloads("logInteraction") :
                 /\ Fulfilled("logInteraction", payload)
                 /\ interactions' = Append(interactions, payload)
            \/ \E payload \in Payloads("updateInteraction") :
                 Fulfilled("updateInteraction", payload)
            \/ \E payload \in Payloads("getInteractionsForHCP") :
                 /\ Fulfilled("getInteractionsForHCP", payload)
                 /\ interactions' = payload
       /\ chatResponse' # chatResponse =>
            \E payload \in Payloads("chatWithAgent") :
              Fulfilled("chatWithAgent", payload)]_vars

\* A request has been rejected while the store held records and a chat
\* response.
C33_Witness ==
    /\ status = "failed"
    /\ interactions # <<>>
    /\ chatResponse # Null

\* C34: resetForm returns the form to its start-of-session state: after it
\* every field of Form State holds the value it had when the form was created
\* and no field is highlighted, and no field becomes highlighted when a timer
\* scheduled before the reset fires.
C34_ResetRestoresStart ==
    [][/\ LogFulfilled(TRUE) /\ ~crashed =>
            /\ formData' = initialFormData
            /\ \A f \in DOMAIN formData : ~Highlighted(updatedFields', f)
       /\ TimerFires =>
            \A f \in DOMAIN formData :
              Highlighted(updatedFields', f) => Highlighted(updatedFields, f)]_vars

\* The (field, value) pairs in the JSON text of an envelope's message.
MessagePairs(env) ==
    IF /\ IsString(env.message)
       /\ JSONParse(env.message.v).ok
       /\ ~PropThrows(JSONParse(env.message.v).value)
       /\ Prop(JSONParse(env.message.v).value, "field_updates").t = "array"
    THEN JSONParse(env.message.v).value.field_updates.v
    ELSE <<>>

\* Form State after the pairs are written one after the other, normalized.
RECURSIVE AppliedInOrder(_, _)
AppliedInOrder(data, pairs) ==
    IF pairs = <<>> THEN data
    ELSE AppliedInOrder(
           Spread(data, CanonicalField(Head(pairs).field.v),
                  S(CanonicalValue(Head(pairs).field.v, Head(pairs).value.v))),
           Tail(pairs))

\* C35: a FORM_POPULATE envelope without a field_updates list is applied from
\* its message: if the message text parses as JSON with field_updates, those
\* updates are applied to Form State in order; if it does not, Form State is
\* unchanged; either way exactly one assistant message is appended and the
\* session is Idle again.
C35_PopulateFromMessage ==
    [][((Processes \/ \E r \in inflight : Arrives(r) /\ ~crashed)
          /\ EnvelopeType = S("FORM_POPULATE")
          /\ ~Truthy(Envelope.field_updates))
         => /\ formData' = AppliedInOrder(FormDataBefore, MessagePairs(Envelope))
            /\ Len(messages') = Len(MessagesBefore) + 1
            /\ SubSeq(messages', 1, Len(MessagesBefore)) = MessagesBefore
            /\ LastMessage(messages').type = "assistant"
            /\ ~isLoading']_vars

\* The envelope whose message lists sentiment good, type Phone, sentiment bad
\* has been applied: the later sentiment stands, the type is set, the log ends
\* with the envelope's message and the session is Idle.
C35_Witness ==
    /\ Prop(chatResponse, "response_type") = S("FORM_POPULATE")
    /\ chatResponse.message = S(ManyUpdatesJson)
    /\ lastProcessedResponse = chatResponse
    /\ formData.hcpSentiment = S("Negative")
    /\ formData.interactionType = S("Call")
    /\ LastMessage(messages).responseType = "FORM_POPULATE"
    /\ ~isLoading

\* The send is accepted: a request is issued.
Sends == issued' = issued + 1

\* C36: message ordering. Each accepted send appends exactly one user
\* message, and the assistant message for its request is appended after it and
\* before any later user message, so after the greeting the log never holds
\* two user messages or two assistant messages in a row.
C36_MessageOrdering ==
    /\ [][Sends => /\ messages' = Append(messages, LastMessage(messages'))
                   /\ LastMessage(messages').type = "user"]_vars
    /\ [](\A i \in 2..(Len(messages) - 1) :
            messages[i].type # messages[i + 1].type)

====
